---- MODULE Spec2Model ----
(***************************************************************************)
(* Driver-recruitment application: the tRPC router (server/routers.ts),    *)
(* the database helpers (server/db.ts) and the drizzle schema              *)
(* (drizzle/schema.ts), as a state machine over the applications table.    *)
(***************************************************************************)
EXTENDS Integers, Sequences, FiniteSets, TLC

(* ------------------------------ bounds --------------------------------- *)

\* Most rows the applications table holds in the model.
MaxApps == 2

\* Last instant of the model's clock (instants are 0..MaxTime).
MaxTime == 1

\* Clock instants per calendar day.
TicksPerDay == 2

\* Last value the serial sequence of applications.id may hand out.
MaxSeq == MaxApps + 1

\* Most updateStatus requests of one Admin page that wait for their answer.
MaxInFlight == 2

\* Most drizzle instances a run may create.
MaxPools == 2

\* Most upsertUser calls that wait between their select and their write.
MaxUpserts == 2

\* Last value the serial sequence of users.id may hand out.
MaxUserSeq == MaxUpserts + 1

\* Longest run of digits typed into a masked field (a mask keeps eleven).
MaxDigits == 13

(* --------------------------- JS null / undefined ----------------------- *)

Null == "<null>"
Undefined == "<undefined>"

(* ------------------------------ schema --------------------------------- *)

roleEnum == {"user", "admin"}
availabilityEnum == {"imediata", "15_dias", "30_dias"}
preferredScheduleEnum == {"manha", "tarde", "noite", "integral", "flexivel"}
statusEnum == {"pendente", "em_analise", "aprovado", "rejeitado"}

\* varchar(n) lengths of the applications table.
FullNameLength == 255
PhoneLength == 20
EmailLength == 320
CpfLength == 14
CityLength == 100
StateLength == 2

\* Column default of applications.status.
StatusDefault == "pendente"

(* ------------------------------ strings -------------------------------- *)

\* A CPF is a sequence of one-character strings, so that its characters can
\* be inspected; every other text field is a string.
Digits == {"0", "1", "2", "3", "4", "5", "6", "7", "8", "9"}

\* parseInt of a one-digit string.
parseInt(c) ==
  CASE c = "0" -> 0 [] c = "1" -> 1 [] c = "2" -> 2 [] c = "3" -> 3
    [] c = "4" -> 4 [] c = "5" -> 5 [] c = "6" -> 6 [] c = "7" -> 7
    [] c = "8" -> 8 [] c = "9" -> 9

IsDigit(c) == c \in Digits

\* cpf.replace(/\D/g, '')
cleanCPF(cpf) == SelectSeq(cpf, IsDigit)

\* /^(\d)\1+$/.test(s): one digit repeated, at least twice.
AllSameDigit(s) ==
  /\ Len(s) >= 2
  /\ \A i \in 1..Len(s) : s[i] \in Digits /\ s[i] = s[1]

RECURSIVE WeightedSum(_, _, _)
\* sum over i in 0..n-1 of parseInt(s[i]) * (w - i)   (s is 1-indexed here)
WeightedSum(s, n, w) ==
  IF n = 0 THEN 0
  ELSE WeightedSum(s, n - 1, w) + parseInt(s[n]) * (w - (n - 1))

\* (sum * 10) % 11, with a remainder of 10 left as it is.
CheckDigit_NoWrap(sum) == (sum * 10) % 11

\* (sum * 10) % 11, with 10 or 11 replaced by 0.
CheckDigit(sum) ==
  LET remainder == (sum * 10) % 11
  IN  IF remainder = 10 \/ remainder = 11 THEN 0 ELSE remainder

\* isValidCPF without the repeated-digit test.
isValidCPF_NoRepeatTest(cpf) ==
  LET c == cleanCPF(cpf)
  IN  /\ Len(c) = 11
      /\ CheckDigit(WeightedSum(c, 9, 10)) = parseInt(c[10])
      /\ CheckDigit(WeightedSum(c, 10, 11)) = parseInt(c[11])

isValidCPF(cpf) ==
  LET c == cleanCPF(cpf)
  IN  /\ Len(c) = 11
      /\ ~AllSameDigit(c)
      /\ CheckDigit(WeightedSum(c, 9, 10)) = parseInt(c[10])
      /\ CheckDigit(WeightedSum(c, 10, 11)) = parseInt(c[11])

\* The smaller of two lengths.
Min(a, b) == IF a <= b THEN a ELSE b

\* s.slice(from, to) on a sequence of characters (0-based, to excluded).
Slice(s, from, to) == SubSeq(s, from + 1, Min(to, Len(s)))

\* s.slice(from)
SliceFrom(s, from) == SubSeq(s, from + 1, Len(s))

\* formatCPF without .slice(0, 11): every digit is kept.
formatCPF_NoSlice(value) ==
  LET digits == SelectSeq(value, IsDigit)
  IN  IF Len(digits) <= 3 THEN digits
      ELSE IF Len(digits) <= 6 THEN
        Slice(digits, 0, 3) \o <<".">> \o SliceFrom(digits, 3)
      ELSE IF Len(digits) <= 9 THEN
        Slice(digits, 0, 3) \o <<".">> \o Slice(digits, 3, 6) \o <<".">>
          \o SliceFrom(digits, 6)
      ELSE
        Slice(digits, 0, 3) \o <<".">> \o Slice(digits, 3, 6) \o <<".">>
          \o Slice(digits, 6, 9) \o <<"-">> \o SliceFrom(digits, 9)

\* The mask 000.000.000-00 over the first eleven digits of value.
formatCPF(value) ==
  LET digits == Slice(SelectSeq(value, IsDigit), 0, 11)
  IN  IF Len(digits) <= 3 THEN digits
      ELSE IF Len(digits) <= 6 THEN
        Slice(digits, 0, 3) \o <<".">> \o SliceFrom(digits, 3)
      ELSE IF Len(digits) <= 9 THEN
        Slice(digits, 0, 3) \o <<".">> \o Slice(digits, 3, 6) \o <<".">>
          \o SliceFrom(digits, 6)
      ELSE
        Slice(digits, 0, 3) \o <<".">> \o Slice(digits, 3, 6) \o <<".">>
          \o Slice(digits, 6, 9) \o <<"-">> \o SliceFrom(digits, 9)

\* The mask (00) 00000-0000 over the first eleven digits of value.
formatPhone(value) ==
  LET digits == Slice(SelectSeq(value, IsDigit), 0, 11)
  IN  IF Len(digits) <= 2 THEN digits
      ELSE IF Len(digits) <= 7 THEN
        <<"(">> \o Slice(digits, 0, 2) \o <<")", " ">> \o SliceFrom(digits, 2)
      ELSE
        <<"(">> \o Slice(digits, 0, 2) \o <<")", " ">> \o Slice(digits, 2, 7)
          \o <<"-">> \o SliceFrom(digits, 7)

\* isValidCPF of the application form.
formIsValidCPF(cpf) ==
  LET c == SelectSeq(cpf, IsDigit)
  IN  /\ Len(c) = 11
      /\ ~AllSameDigit(c)
      /\ CheckDigit(WeightedSum(c, 9, 10)) = parseInt(c[10])
      /\ CheckDigit(WeightedSum(c, 10, 11)) = parseInt(c[11])

(* --------------------------- request contexts -------------------------- *)

\* ctx.user of a request without a session.
NoUser == [openId |-> Null, role |-> Null]

createPublicContext == [user |-> NoUser]
createAdminContext == [user |-> [openId |-> "admin-user", role |-> "admin"]]
createUserContext == [user |-> [openId |-> "regular-user", role |-> "user"]]

Contexts == {createPublicContext, createAdminContext, createUserContext}

\* Outcome of the checks that run before a handler: "OK" lets the call through.
Pass == [code |-> "OK", message |-> ""]

\* protectedProcedure: a request without a user is refused.
protectedProcedure(ctx) ==
  IF ctx.user = NoUser
    THEN [code |-> "UNAUTHORIZED", message |-> ""]
    ELSE Pass

\* adminProcedure without its role check.
adminProcedure_NoRoleCheck(ctx) == protectedProcedure(ctx)

\* adminProcedure with its role comparison inverted.
adminProcedure_Inverted(ctx) ==
  IF protectedProcedure(ctx).code # "OK" THEN protectedProcedure(ctx)
  ELSE IF ctx.user.role = "admin"
    THEN [code |-> "FORBIDDEN", message |-> "Acesso restrito a administradores"]
    ELSE Pass

adminProcedure(ctx) ==
  IF protectedProcedure(ctx).code # "OK" THEN protectedProcedure(ctx)
  ELSE IF ctx.user.role # "admin"
    THEN [code |-> "FORBIDDEN", message |-> "Acesso restrito a administradores"]
    ELSE Pass

(* ------------------------- applications.submit input ------------------- *)

CpfValid == <<"5","2","9",".","9","8","2",".","2","4","7","-","2","5">>
CpfValidPlain == <<"5","2","9","9","8","2","2","4","7","2","5">>
CpfAllEqual == <<"1","1","1",".","1","1","1",".","1","1","1","-","1","1">>
CpfBadCheck == <<"5","2","9",".","9","8","2",".","2","4","7","-","2","6">>
CpfShort == <<"5","2","9",".","9","8","2",".","2","4","7","-","2">>
\* Eleven digits with a valid checksum in fifteen characters.
CpfValidLong == <<"5","2","9",".","9","8","2",".","2","4","7","-","-","2","5">>

\* The email strings of the model that z.string().email() accepts.
WellFormedEmails == {"joao@email.com"}

\* The input of the test "should submit a new application successfully";
\* status is a key the input schema does not declare (Undefined: absent).
BaseInput ==
  [fullName |-> "Joao Silva",
   phone |-> "(11) 99999-9999",
   email |-> "joao@email.com",
   cpf |-> CpfValid,
   city |-> "Sao Paulo",
   state |-> "SP",
   vehicleTypes |-> <<"caminhao", "carro">>,
   experienceYears |-> 5,
   availability |-> "imediata",
   hasPendingFines |-> FALSE,
   acceptsLongTrips |-> TRUE,
   preferredSchedule |-> "integral",
   hasExperienceWithCargo |-> TRUE,
   hasExperienceWithPassengers |-> FALSE,
   notes |-> "Tenho experiencia com cargas pesadas",
   status |-> Undefined]

\* Inputs the server accepts and the table stores.
AcceptedInputs ==
  {BaseInput,
   [BaseInput EXCEPT !.email = "", !.notes = Undefined,
                     !.availability = "15_dias", !.vehicleTypes = <<"moto">>,
                     !.cpf = CpfValidPlain, !.phone = "1199999999"],
   [BaseInput EXCEPT !.email = Undefined, !.notes = "", !.status = "aprovado",
                     !.availability = "15_dias", !.vehicleTypes = <<"moto">>,
                     !.cpf = CpfValidPlain, !.phone = "1199999999"]}

\* Inputs that break one rule of the input schema each.
RejectedInputs ==
  {[BaseInput EXCEPT !.fullName = "Jo"],
   [BaseInput EXCEPT !.phone = "119999999"],
   [BaseInput EXCEPT !.email = "joao-at-email"],
   [BaseInput EXCEPT !.cpf = CpfAllEqual],
   [BaseInput EXCEPT !.cpf = CpfBadCheck],
   [BaseInput EXCEPT !.cpf = CpfShort],
   [BaseInput EXCEPT !.city = "S"],
   [BaseInput EXCEPT !.state = "SPX"],
   [BaseInput EXCEPT !.vehicleTypes = <<>>],
   [BaseInput EXCEPT !.experienceYears = -1],
   [BaseInput EXCEPT !.availability = "60_dias"],
   [BaseInput EXCEPT !.preferredSchedule = "madrugada"]}

\* Inputs the input schema accepts and a column of the table does not hold.
OverlongInputs ==
  {[BaseInput EXCEPT !.cpf = CpfValidLong],
   [BaseInput EXCEPT !.phone = "(11) 99999-9999 ramal 12"]}

SubmitInputs == AcceptedInputs \cup RejectedInputs \cup OverlongInputs

\* The submit inputs of the runs that exercise the admin procedures.
FewSubmitInputs ==
  {BaseInput,
   [BaseInput EXCEPT !.status = "aprovado"],
   [BaseInput EXCEPT !.cpf = CpfAllEqual]}

\* z.string(): the key is present and holds a string.
IsString(v) == v # Undefined

\* The input schema without .min(1) on vehicleTypes.
SubmitInputValid_NoVehicleMin(input) ==
  /\ IsString(input.fullName) /\ Len(input.fullName) >= 3
  /\ IsString(input.phone) /\ Len(input.phone) >= 10
  /\ \/ input.email = Undefined
     \/ input.email \in WellFormedEmails
     \/ input.email = ""
  /\ isValidCPF(input.cpf)
  /\ IsString(input.city) /\ Len(input.city) >= 2
  /\ IsString(input.state) /\ Len(input.state) = 2
  /\ input.experienceYears >= 0
  /\ input.availability \in availabilityEnum
  /\ input.preferredSchedule \in preferredScheduleEnum
  /\ (input.notes = Undefined \/ IsString(input.notes))

\* The z.object(...) of applications.submit.
SubmitInputValid(input) ==
  /\ IsString(input.fullName) /\ Len(input.fullName) >= 3
  /\ IsString(input.phone) /\ Len(input.phone) >= 10
  /\ \/ input.email = Undefined
     \/ input.email \in WellFormedEmails
     \/ input.email = ""
  /\ isValidCPF(input.cpf)
  /\ IsString(input.city) /\ Len(input.city) >= 2
  /\ IsString(input.state) /\ Len(input.state) = 2
  /\ Len(input.vehicleTypes) >= 1
  /\ input.experienceYears >= 0
  /\ input.availability \in availabilityEnum
  /\ input.hasPendingFines \in BOOLEAN
  /\ input.acceptsLongTrips \in BOOLEAN
  /\ input.preferredSchedule \in preferredScheduleEnum
  /\ input.hasExperienceWithCargo \in BOOLEAN
  /\ input.hasExperienceWithPassengers \in BOOLEAN
  /\ (input.notes = Undefined \/ IsString(input.notes))

\* formSchema with min(4) on phone.
formSchema_ShortPhone(input) ==
  /\ IsString(input.fullName) /\ Len(input.fullName) >= 3
  /\ IsString(input.phone) /\ Len(input.phone) >= 4
  /\ \/ input.email = Undefined
     \/ input.email \in WellFormedEmails
     \/ input.email = ""
  /\ formIsValidCPF(input.cpf)
  /\ IsString(input.city) /\ Len(input.city) >= 2
  /\ IsString(input.state) /\ Len(input.state) = 2
  /\ Len(input.vehicleTypes) >= 1
  /\ input.experienceYears >= 0
  /\ input.availability \in availabilityEnum
  /\ input.hasPendingFines \in BOOLEAN
  /\ input.acceptsLongTrips \in BOOLEAN
  /\ input.preferredSchedule \in preferredScheduleEnum
  /\ input.hasExperienceWithCargo \in BOOLEAN
  /\ input.hasExperienceWithPassengers \in BOOLEAN
  /\ (input.notes = Undefined \/ IsString(input.notes))

\* The formSchema of the application form, checked before the form is sent.
formSchema(input) ==
  /\ IsString(input.fullName) /\ Len(input.fullName) >= 3
  /\ IsString(input.phone) /\ Len(input.phone) >= 14
  /\ \/ input.email = Undefined
     \/ input.email \in WellFormedEmails
     \/ input.email = ""
  /\ formIsValidCPF(input.cpf)
  /\ IsString(input.city) /\ Len(input.city) >= 2
  /\ IsString(input.state) /\ Len(input.state) = 2
  /\ Len(input.vehicleTypes) >= 1
  /\ input.experienceYears >= 0
  /\ input.availability \in availabilityEnum
  /\ input.hasPendingFines \in BOOLEAN
  /\ input.acceptsLongTrips \in BOOLEAN
  /\ input.preferredSchedule \in preferredScheduleEnum
  /\ input.hasExperienceWithCargo \in BOOLEAN
  /\ input.hasExperienceWithPassengers \in BOOLEAN
  /\ (input.notes = Undefined \/ IsString(input.notes))

\* value || null
OrNull(v) == IF v = Undefined \/ v = "" THEN Null ELSE v

\* submit handing every key of its input on, status included.
SubmitData_Spread(input) ==
  [k \in (IF input.status = Undefined THEN DOMAIN input \ {"status"}
                                      ELSE DOMAIN input) |->
     IF k \in {"email", "notes"} THEN OrNull(input[k]) ELSE input[k]]

\* The object applications.submit hands to createApplication.
SubmitData(input) ==
  [fullName |-> input.fullName,
   phone |-> input.phone,
   email |-> OrNull(input.email),
   cpf |-> input.cpf,
   city |-> input.city,
   state |-> input.state,
   vehicleTypes |-> input.vehicleTypes,
   experienceYears |-> input.experienceYears,
   availability |-> input.availability,
   hasPendingFines |-> input.hasPendingFines,
   acceptsLongTrips |-> input.acceptsLongTrips,
   preferredSchedule |-> input.preferredSchedule,
   hasExperienceWithCargo |-> input.hasExperienceWithCargo,
   hasExperienceWithPassengers |-> input.hasExperienceWithPassengers,
   notes |-> OrNull(input.notes)]

(* ------------------------------ database ------------------------------- *)

\* A varchar(n) column holds a string of at most n characters (a longer one
\* whose excess is not blank makes the statement fail).
FitsVarchar(v, n) == v = Null \/ Len(v) <= n

\* The constraints of the applications table on an inserted row.
InsertAccepted(data) ==
  /\ FitsVarchar(data.fullName, FullNameLength)
  /\ FitsVarchar(data.phone, PhoneLength)
  /\ FitsVarchar(data.email, EmailLength)
  /\ Len(data.cpf) <= CpfLength
  /\ FitsVarchar(data.city, CityLength)
  /\ FitsVarchar(data.state, StateLength)
  /\ data.availability \in availabilityEnum
  /\ data.preferredSchedule \in preferredScheduleEnum
  /\ ("status" \in DOMAIN data => data.status \in statusEnum)

\* An insert that does not draw the id from the serial: every row gets id 1.
createApplication_FirstId(data, id, at) ==
  [id |-> 1,
   fullName |-> data.fullName,
   phone |-> data.phone,
   email |-> data.email,
   cpf |-> data.cpf,
   city |-> data.city,
   state |-> data.state,
   vehicleTypes |-> data.vehicleTypes,
   experienceYears |-> data.experienceYears,
   availability |-> data.availability,
   hasPendingFines |-> data.hasPendingFines,
   acceptsLongTrips |-> data.acceptsLongTrips,
   preferredSchedule |-> data.preferredSchedule,
   hasExperienceWithCargo |-> data.hasExperienceWithCargo,
   hasExperienceWithPassengers |-> data.hasExperienceWithPassengers,
   notes |-> data.notes,
   status |-> IF "status" \in DOMAIN data THEN data.status ELSE StatusDefault,
   createdAt |-> at,
   updatedAt |-> at]

\* db.insert(applications).values(data).returning(): the stored row. Columns
\* the data does not name take their defaults.
createApplication(data, id, at) ==
  [id |-> id,
   fullName |-> data.fullName,
   phone |-> data.phone,
   email |-> data.email,
   cpf |-> data.cpf,
   city |-> data.city,
   state |-> data.state,
   vehicleTypes |-> data.vehicleTypes,
   experienceYears |-> data.experienceYears,
   availability |-> data.availability,
   hasPendingFines |-> data.hasPendingFines,
   acceptsLongTrips |-> data.acceptsLongTrips,
   preferredSchedule |-> data.preferredSchedule,
   hasExperienceWithCargo |-> data.hasExperienceWithCargo,
   hasExperienceWithPassengers |-> data.hasExperienceWithPassengers,
   notes |-> data.notes,
   status |-> IF "status" \in DOMAIN data THEN data.status ELSE StatusDefault,
   createdAt |-> at,
   updatedAt |-> at]

\* The select without its where clause: the first row of the table.
getApplicationById_First(table, id) ==
  IF DOMAIN table # {}
    THEN <<table[CHOOSE i \in DOMAIN table : \A j \in DOMAIN table : i <= j]>>
    ELSE <<>>

\* select ... where id = $1, destructured: <<row>>, or <<>> for undefined.
getApplicationById(table, id) ==
  IF id \in DOMAIN table THEN <<table[id]>> ELSE <<>>

\* The status column takes the values of statusEnum only.
UpdateAccepted(status) == status \in statusEnum

\* The fixed order pendente -> em_analise -> aprovado | rejeitado.
Workflow ==
  {<<"pendente", "em_analise">>, <<"em_analise", "aprovado">>,
   <<"em_analise", "rejeitado">>}

\* An update that only moves a row along the workflow order.
updateApplicationStatus_WorkflowOnly(table, id, status) ==
  [i \in DOMAIN table |->
     IF i = id /\ <<table[i].status, status>> \in Workflow
       THEN [table[i] EXCEPT !.status = status] ELSE table[i]]

\* An update that ignores the requested status.
updateApplicationStatus_Fixed(table, id, status) ==
  [i \in DOMAIN table |->
     IF i = id THEN [table[i] EXCEPT !.status = "em_analise"] ELSE table[i]]

\* The update with where id <= $2: rows below an id that is not stored
\* are written.
updateApplicationStatus_UpToId(table, id, status) ==
  [i \in DOMAIN table |->
     IF i <= id THEN [table[i] EXCEPT !.status = status] ELSE table[i]]

\* The update without its where clause: every row gets the status.
updateApplicationStatus_EveryRow(table, id, status) ==
  [i \in DOMAIN table |-> [table[i] EXCEPT !.status = status]]

\* An update that also writes the creation timestamp of the row.
updateApplicationStatus_TouchesCreatedAt(table, id, status) ==
  [i \in DOMAIN table |->
     IF i = id THEN [table[i] EXCEPT !.status = status,
                                     !.createdAt = table[i].createdAt + 1]
     ELSE table[i]]

\* update applications set status = $1 where id = $2
updateApplicationStatus(table, id, status) ==
  [i \in DOMAIN table |->
     IF i = id THEN [table[i] EXCEPT !.status = status] ELSE table[i]]

CountStatus(table, s) == Cardinality({i \in DOMAIN table : table[i].status = s})

\* The stats with the em_analise bucket compared against a misspelt status.
getApplicationStats_Misspelt(table) ==
  [total |-> Cardinality(DOMAIN table),
   pendente |-> CountStatus(table, "pendente"),
   em_analise |-> CountStatus(table, "em_análise"),
   aprovado |-> CountStatus(table, "aprovado"),
   rejeitado |-> CountStatus(table, "rejeitado")]

getApplicationStats(table) ==
  [total |-> Cardinality(DOMAIN table),
   pendente |-> CountStatus(table, "pendente"),
   em_analise |-> CountStatus(table, "em_analise"),
   aprovado |-> CountStatus(table, "aprovado"),
   rejeitado |-> CountStatus(table, "rejeitado")]

(* --------------------------- applications.list ------------------------- *)

\* The values of an <input type="date">, and the calendar day each names.
DateStrings == {"2024-01-01", "2024-01-02"}

DayOf(s) == IF s = "2024-01-01" THEN 0 ELSE 1

\* new Date("YYYY-MM-DD"): the first instant of that day.
NewDate(s) == DayOf(s) * TicksPerDay

NoFilters ==
  [vehicleType |-> Undefined, availability |-> Undefined,
   startDate |-> Undefined, endDate |-> Undefined]

\* list called with no input at all, and listApplications with no filters.
Absent == [absent |-> TRUE]

IsAbsent(v) == "absent" \in DOMAIN v

ListInputs ==
  {Absent,
   NoFilters,
   [NoFilters EXCEPT !.vehicleType = "carro"],
   [NoFilters EXCEPT !.vehicleType = ""],
   [NoFilters EXCEPT !.availability = "15_dias"],
   [NoFilters EXCEPT !.availability = ""],
   [NoFilters EXCEPT !.startDate = "2024-01-01", !.endDate = "2024-01-01"],
   [NoFilters EXCEPT !.startDate = "2024-01-02", !.vehicleType = "moto"]}

\* The z.object(...).optional() of applications.list.
ListInputValid(input) ==
  \/ IsAbsent(input)
  \/ /\ input.availability = Undefined \/ input.availability \in availabilityEnum
     /\ input.startDate = Undefined \/ IsString(input.startDate)
     /\ input.endDate = Undefined \/ IsString(input.endDate)
     /\ input.vehicleType = Undefined \/ IsString(input.vehicleType)

\* JS truthiness of an optional string.
Truthy(v) == v # Undefined /\ v # ""

\* The filters object applications.list builds from its input; an optional
\* Date is <<d>>, or <<>> for undefined.
ListFilters(input) ==
  IF IsAbsent(input) THEN Absent
  ELSE [vehicleType |-> input.vehicleType,
        availability |-> input.availability,
        startDate |-> IF Truthy(input.startDate)
                        THEN <<NewDate(input.startDate)>> ELSE <<>>,
        endDate |-> IF Truthy(input.endDate)
                      THEN <<NewDate(input.endDate)>> ELSE <<>>]

\* The rows the where clause of listApplications keeps.
ListWhere(table, filters) ==
  {i \in DOMAIN table :
     ~IsAbsent(filters) =>
       /\ Truthy(filters.availability) =>
            table[i].availability = filters.availability
       /\ filters.startDate # <<>> => table[i].createdAt >= filters.startDate[1]
       /\ filters.endDate # <<>> => table[i].createdAt <= filters.endDate[1]}

\* array.includes(value)
Includes(seq, v) == \E k \in 1..Len(seq) : seq[k] = v

\* The orders "order by created_at asc" may return the rows of ids in.
OrderByCreatedAtAsc(table, ids) ==
  {o \in [1..Cardinality(ids) -> ids] :
     /\ \A a, b \in 1..Cardinality(ids) : a # b => o[a] # o[b]
     /\ \A a \in 1..(Cardinality(ids) - 1) :
          table[o[a]].createdAt <= table[o[a + 1]].createdAt}

\* The orders "order by created_at desc" may return the rows of ids in.
OrderByCreatedAtDesc(table, ids) ==
  {o \in [1..Cardinality(ids) -> ids] :
     /\ \A a, b \in 1..Cardinality(ids) : a # b => o[a] # o[b]
     /\ \A a \in 1..(Cardinality(ids) - 1) :
          table[o[a]].createdAt >= table[o[a + 1]].createdAt}

\* The results listApplications may return: the kept rows in one of the
\* possible orders, then filtered in memory by vehicle type.
listApplications(table, filters) ==
  {LET results == [k \in 1..Len(o) |-> table[o[k]]]
       HasVehicle(app) == Includes(app.vehicleTypes, filters.vehicleType)
   IN  IF ~IsAbsent(filters) /\ Truthy(filters.vehicleType)
         THEN SelectSeq(results, HasVehicle)
         ELSE results
   : o \in OrderByCreatedAtDesc(table, ListWhere(table, filters))}

(* ------------------------------- state --------------------------------- *)

VARIABLES
  applications,   \* the applications table: id -> row
  seq,            \* last value handed out by the serial of applications.id
  now,            \* the clock
  call,           \* the last request: procedure, context, input
  response,       \* its outcome
  previous,       \* the applications table as it was before the last request
  ownerNotifications,  \* notifications sent to the owner so far
  panel,          \* the Admin page: auth, filters, queries
  text,           \* a string handed to the CPF check and to the masks
  env,            \* process.env: whether DATABASE_URL is set
  _db,            \* the cached drizzle instance: <<>> for null, <<k>> for the k-th
  pools,          \* drizzle instances created so far
  users,          \* the users table: id -> row
  userSeq,        \* last value handed out by the serial of users.id
  upserts,        \* upsertUser calls between their select and their write
  dbCall,         \* the last call of a users function that ended, and how
  previousUsers   \* the users table as it was before that call ended

vars == <<applications, seq, now, call, response, previous,
          ownerNotifications, panel, text, env, _db, pools, users, userSeq,
          upserts, dbCall, previousUsers>>

\* The connection of db.ts.
dbVars == <<env, _db, pools>>

\* The users table and the calls of upsertUser.
userVars == <<users, userSeq, upserts, dbCall, previousUsers>>

\* The state of the browser pages.
clientVars == <<panel, text>>

Ok(data) == [code |-> "OK", message |-> "", data |-> data, cookie |-> Null]

Refused(e) == [code |-> e.code, message |-> e.message, data |-> Undefined,
               cookie |-> Null]

BadRequest == [code |-> "BAD_REQUEST", message |-> "ZodError"]

InternalError == [code |-> "INTERNAL_SERVER_ERROR", message |-> "query failed"]

\* throw new Error("Database not available"), as the procedure answers it
DbUnavailable ==
  [code |-> "INTERNAL_SERVER_ERROR", message |-> "Database not available"]

NotFound == [code |-> "NOT_FOUND", message |-> "Candidatura não encontrada"]

Ids == 1..MaxSeq

\* What a getDb() may hold or return: null or one of the instances.
Connections == {<<>>} \cup {<<k>> : k \in 1..MaxPools}

\* getDb() that builds a new instance on every call.
getDb_AlwaysNew(db) ==
  /\ db \in (IF env.DATABASE_URL THEN {<<pools + 1>>, <<>>} ELSE {<<>>})
  /\ db # <<>> => pools < MaxPools
  /\ _db' = db
  /\ pools' = IF db # <<>> THEN pools + 1 ELSE pools
  /\ UNCHANGED env

\* getDb() returns db: the cached instance if there is one, else a new one
\* when DATABASE_URL is set and the creation does not throw, else null.
getDb(db) ==
  /\ db \in (IF _db # <<>> THEN {_db}
             ELSE IF env.DATABASE_URL THEN {<<pools + 1>>, <<>>}
             ELSE {<<>>})
  /\ db # _db => pools < MaxPools
  /\ _db' = db
  /\ pools' = IF db # _db THEN pools + 1 ELSE pools
  /\ UNCHANGED env

\* DATABASE_URL is set and a first getDb() has created the instance.
Connected ==
  /\ env = [DATABASE_URL |-> TRUE]
  /\ _db = <<1>>
  /\ pools = 1

\* An InsertUser with nothing but its openId.
OnlyOpenId(openId) ==
  [openId |-> openId, name |-> Undefined, email |-> Undefined,
   loginMethod |-> Undefined, role |-> Undefined]

\* No users function has been called.
NoDbCall ==
  [fn |-> "none", user |-> OnlyOpenId(""), existing |-> FALSE,
   outcome |-> "none", result |-> <<>>, at |-> 0]

\* No user yet and no upsertUser under way.
NoUsers ==
  /\ users = <<>>
  /\ userSeq = 0
  /\ upserts = {}
  /\ dbCall = NoDbCall
  /\ previousUsers = <<>>

\* The server after start-up: an empty table, no request yet.
InitServer ==
  /\ applications = <<>>
  /\ seq = 0
  /\ now = 0
  /\ call = [op |-> "none", ctx |-> createPublicContext, input |-> Undefined]
  /\ response = Ok(Undefined)
  /\ previous = <<>>
  /\ ownerNotifications = 0
  /\ Connected
  /\ NoUsers

\* useState of the Admin page's filters.
EmptyFilters ==
  [vehicleType |-> "", availability |-> "", startDate |-> "", endDate |-> ""]

\* A query that has not run: no data.
IdleQuery == [status |-> "idle", data |-> <<>>]

\* No Admin page is open.
PanelClosed ==
  [open |-> FALSE, authLoading |-> TRUE, user |-> NoUser,
   filters |-> EmptyFilters, list |-> IdleQuery, stats |-> IdleQuery,
   selectedApplication |-> <<>>, mutation |-> "idle", inflight |-> <<>>]

\* No string is being checked.
TextIdle ==
  [stage |-> "idle", raw |-> <<>>, valid |-> FALSE, formValid |-> FALSE,
   masked |-> <<>>, remasked |-> <<>>]

Init ==
  /\ InitServer
  /\ panel = PanelClosed
  /\ text = TextIdle

\* Time passes.
Tick ==
  /\ now < MaxTime
  /\ now' = now + 1
  /\ UNCHANGED <<applications, seq, call, response, previous,
                 ownerNotifications, panel, text, dbVars, userVars>>

\* auth.me
Me ==
  \E ctx \in Contexts :
    /\ call' = [op |-> "auth.me", ctx |-> ctx, input |-> Undefined]
    /\ response' = Ok(ctx.user)
    /\ previous' = applications
    /\ UNCHANGED <<applications, seq, now, ownerNotifications, panel, text,
                   dbVars, userVars>>

\* auth.logout
Logout ==
  \E ctx \in Contexts :
    /\ call' = [op |-> "auth.logout", ctx |-> ctx, input |-> Undefined]
    /\ response' = [Ok([success |-> TRUE]) EXCEPT
                      !.cookie = [name |-> "COOKIE_NAME", maxAge |-> -1]]
    /\ previous' = applications
    /\ UNCHANGED <<applications, seq, now, ownerNotifications, panel, text,
                   dbVars, userVars>>

\* The server's part of one applications.submit request.
SubmitCall(ctx, input) ==
  /\ call' = [op |-> "applications.submit", ctx |-> ctx, input |-> input]
  /\ previous' = applications
  \* no notification: the handler only logs the new application
  /\ UNCHANGED <<now, ownerNotifications, userVars>>
  /\ IF ~SubmitInputValid(input) THEN
       /\ response' = Refused(BadRequest)
       /\ UNCHANGED <<applications, seq, dbVars>>
     ELSE
       \E db \in Connections :
         /\ getDb(db)
         /\ IF db = <<>> THEN
              /\ response' = Refused(DbUnavailable)
              /\ UNCHANGED <<applications, seq>>
            ELSE IF ~InsertAccepted(SubmitData(input)) THEN
              \* the failed insert has drawn its id from the serial
              /\ seq < MaxSeq
              /\ seq' = seq + 1
              /\ response' = Refused(InternalError)
              /\ UNCHANGED applications
            ELSE
              /\ Cardinality(DOMAIN applications) < MaxApps
              /\ seq < MaxSeq
              /\ LET application ==
                       createApplication(SubmitData(input), seq + 1, now)
                 IN  /\ applications' =
                          [i \in DOMAIN applications \cup {application.id} |->
                             IF i = application.id THEN application
                             ELSE applications[i]]
                     /\ response' =
                          Ok([success |-> TRUE, id |-> application.id])
              /\ seq' = seq + 1

\* applications.submit, with an input of the set inputs
Submit(inputs) ==
  \E ctx \in Contexts, input \in inputs :
    /\ SubmitCall(ctx, input)
    /\ UNCHANGED clientVars

\* The server's part of one applications.list request.
ListCall(ctx, input) ==
  /\ call' = [op |-> "applications.list", ctx |-> ctx, input |-> input]
  /\ previous' = applications
  /\ UNCHANGED <<applications, seq, now, ownerNotifications, userVars>>
  /\ IF adminProcedure(ctx).code # "OK" THEN
       /\ response' = Refused(adminProcedure(ctx))
       /\ UNCHANGED dbVars
     ELSE IF ~ListInputValid(input) THEN
       /\ response' = Refused(BadRequest)
       /\ UNCHANGED dbVars
     ELSE
       \E db \in Connections :
         /\ getDb(db)
         /\ IF db = <<>> THEN
              response' = Refused(DbUnavailable)
            ELSE
              \E results \in listApplications(applications,
                                              ListFilters(input)) :
                response' = Ok(results)

\* applications.list, with an input of the set inputs
List(inputs) ==
  \E ctx \in Contexts, input \in inputs :
    /\ ListCall(ctx, input)
    /\ UNCHANGED clientVars

\* applications.getById
GetById ==
  \E ctx \in Contexts, id \in Ids :
    /\ call' = [op |-> "applications.getById", ctx |-> ctx, input |-> [id |-> id]]
    /\ previous' = applications
    /\ UNCHANGED <<applications, seq, now, ownerNotifications, panel, text,
                   userVars>>
    /\ IF adminProcedure(ctx).code # "OK" THEN
         /\ response' = Refused(adminProcedure(ctx))
         /\ UNCHANGED dbVars
       ELSE
         \E db \in Connections :
           /\ getDb(db)
           /\ IF db = <<>> THEN
                response' = Refused(DbUnavailable)
              ELSE IF getApplicationById(applications, id) = <<>> THEN
                response' = Refused(NotFound)
              ELSE
                response' = Ok(getApplicationById(applications, id)[1])

\* Status values a request may carry: the four of the enum and one outside.
StatusInputs == statusEnum \cup {"arquivado"}

\* The input schema with z.string() in place of the z.enum of statuses.
UpdateStatusInputValid_AnyString(input) == IsString(input.status)

\* The z.object(...) of applications.updateStatus.
UpdateStatusInputValid(input) == input.status \in statusEnum

\* applications.updateStatus, with a status of the set statuses
UpdateStatusCall(ctx, id, status) ==
  /\ call' = [op |-> "applications.updateStatus", ctx |-> ctx,
              input |-> [id |-> id, status |-> status]]
  /\ previous' = applications
  /\ UNCHANGED <<seq, now, ownerNotifications, userVars>>
  /\ IF adminProcedure(ctx).code # "OK" THEN
       /\ response' = Refused(adminProcedure(ctx))
       /\ UNCHANGED <<applications, dbVars>>
     ELSE IF ~UpdateStatusInputValid([id |-> id, status |-> status]) THEN
       /\ response' = Refused(BadRequest)
       /\ UNCHANGED <<applications, dbVars>>
     ELSE
       \E db \in Connections :
         /\ getDb(db)
         /\ IF db = <<>> THEN
              /\ response' = Refused(DbUnavailable)
              /\ UNCHANGED applications
            ELSE IF ~UpdateAccepted(status) THEN
              /\ response' = Refused(InternalError)
              /\ UNCHANGED applications
            ELSE
              /\ applications' =
                   updateApplicationStatus(applications, id, status)
              /\ response' = Ok([success |-> TRUE])

\* applications.updateStatus, with a status of the set statuses
UpdateStatus(statuses) ==
  \E ctx \in Contexts, id \in Ids, status \in statuses :
    /\ UpdateStatusCall(ctx, id, status)
    /\ UNCHANGED clientVars

\* The server's part of one applications.stats request.
StatsCall(ctx) ==
  /\ call' = [op |-> "applications.stats", ctx |-> ctx, input |-> Undefined]
  /\ previous' = applications
  /\ UNCHANGED <<applications, seq, now, ownerNotifications, userVars>>
  /\ IF adminProcedure(ctx).code # "OK" THEN
       /\ response' = Refused(adminProcedure(ctx))
       /\ UNCHANGED dbVars
     ELSE
       \E db \in Connections :
         /\ getDb(db)
         /\ response' = IF db = <<>> THEN Refused(DbUnavailable)
                        ELSE Ok(getApplicationStats(applications))

\* applications.stats
Stats ==
  \E ctx \in Contexts :
    /\ StatsCall(ctx)
    /\ UNCHANGED clientVars

\* The list inputs of the runs that exercise the admin procedures.
FewListInputs ==
  {Absent, NoFilters, [NoFilters EXCEPT !.vehicleType = "carro"],
   [NoFilters EXCEPT !.availability = ""]}

\* The router under every caller and every status request.
Next ==
  \/ Me
  \/ Logout
  \/ Submit(FewSubmitInputs)
  \/ List(FewListInputs)
  \/ GetById
  \/ UpdateStatus(StatusInputs)
  \/ Stats

Spec == Init /\ [][Next]_vars

\* The router under every submit input.
NextSubmit ==
  \/ Submit(SubmitInputs)
  \/ UpdateStatus({"aprovado"})

SpecSubmit == Init /\ [][NextSubmit]_vars

\* Two accepted inputs that differ in every column list filters on.
ListSubmitInputs ==
  {BaseInput,
   [BaseInput EXCEPT !.availability = "15_dias", !.vehicleTypes = <<"moto">>]}

\* The router with a running clock: applications are created at different
\* instants, listed under every filter and moved to another status.
NextList ==
  \/ Tick
  \/ Submit(ListSubmitInputs)
  \/ List(ListInputs)
  \/ UpdateStatus({"aprovado"})

SpecList == Init /\ [][NextList]_vars

(* ------------------------------- users ---------------------------------- *)

\* users.openId is unique: an insert of a taken openId is refused.
OpenIdTaken(table, openId) == \E i \in DOMAIN table : table[i].openId = openId

\* select().from(users).where(eq(users.openId, openId)).limit(1):
\* <<>> for no row, else <<row>>.
SelectUser(table, openId) ==
  IF \E i \in DOMAIN table : table[i].openId = openId
  THEN <<table[CHOOSE i \in DOMAIN table : table[i].openId = openId]>>
  ELSE <<>>

\* The update of upsertUser with role ?? 'user' in place of the test on role.
UpdatedUser_RoleDefault(row, user, t) ==
  [row EXCEPT
     !.lastSignedIn = t,
     !.name = IF user.name # Undefined THEN user.name ELSE @,
     !.email = IF user.email # Undefined THEN user.email ELSE @,
     !.loginMethod = IF user.loginMethod # Undefined THEN user.loginMethod
                     ELSE @,
     !.role = IF user.role # Undefined THEN user.role ELSE "user"]

\* The row after update(users).set(updateData): lastSignedIn always, the
\* other four columns only where the call supplies them (null included).
UpdatedUser(row, user, t) ==
  [row EXCEPT
     !.lastSignedIn = t,
     !.name = IF user.name # Undefined THEN user.name ELSE @,
     !.email = IF user.email # Undefined THEN user.email ELSE @,
     !.loginMethod = IF user.loginMethod # Undefined THEN user.loginMethod
                     ELSE @,
     !.role = IF user.role # Undefined THEN user.role ELSE @]

\* v ?? fallback
Coalesce(v, fallback) == IF v = Undefined \/ v = Null THEN fallback ELSE v

\* The row insert(users).values(...) stores under the id the serial hands out.
InsertedUser(user, id, t) ==
  [id |-> id, openId |-> user.openId,
   name |-> Coalesce(user.name, Null),
   email |-> Coalesce(user.email, Null),
   loginMethod |-> Coalesce(user.loginMethod, Null),
   role |-> Coalesce(user.role, "user"),
   createdAt |-> t, updatedAt |-> t, lastSignedIn |-> t]

\* The outcome of a users function that ended.
Ended(fn, user, existing, outcome, result) ==
  [fn |-> fn, user |-> user, existing |-> existing, outcome |-> outcome,
   result |-> result, at |-> now]

\* upsertUser up to the answer of its select: throws on an empty openId,
\* returns when there is no database, else goes on to its write.
upsertUserSelects(inputs) ==
  \E user \in inputs :
    /\ UNCHANGED <<applications, seq, now, call, response, previous,
                   ownerNotifications, panel, text, users, userSeq>>
    /\ IF user.openId = "" THEN
         /\ dbCall' = Ended("upsertUser", user, FALSE, "threw", <<>>)
         /\ previousUsers' = users
         /\ UNCHANGED <<upserts, dbVars>>
       ELSE
         \E db \in Connections :
           /\ getDb(db)
           /\ IF db = <<>> THEN
                /\ dbCall' = Ended("upsertUser", user, FALSE, "returned", <<>>)
                /\ previousUsers' = users
                /\ UNCHANGED upserts
              ELSE
                /\ Cardinality(upserts) < MaxUpserts
                /\ upserts' = upserts \cup
                     {[user |-> user,
                       existing |-> SelectUser(users, user.openId) # <<>>]}
                /\ UNCHANGED <<dbCall, previousUsers>>

\* upsertUser from the answer of its select on: the update of the row found,
\* or the insert, which throws when the openId has been taken meanwhile.
upsertUserWrites ==
  \E u \in upserts :
    /\ upserts' = upserts \ {u}
    /\ previousUsers' = users
    /\ UNCHANGED <<applications, seq, now, call, response, previous,
                   ownerNotifications, panel, text, dbVars>>
    /\ IF u.existing THEN
         /\ users' = [i \in DOMAIN users |->
                        IF users[i].openId = u.user.openId
                        THEN UpdatedUser(users[i], u.user, now)
                        ELSE users[i]]
         /\ dbCall' = Ended("upsertUser", u.user, TRUE, "updated", <<>>)
         /\ UNCHANGED userSeq
       ELSE
         \* the insert draws its id from the serial, refused or not
         /\ userSeq < MaxUserSeq
         /\ userSeq' = userSeq + 1
         /\ IF OpenIdTaken(users, u.user.openId) THEN
              /\ dbCall' = Ended("upsertUser", u.user, FALSE, "threw", <<>>)
              /\ UNCHANGED users
            ELSE
              /\ users' = [i \in DOMAIN users \cup {userSeq + 1} |->
                             IF i = userSeq + 1
                             THEN InsertedUser(u.user, i, now)
                             ELSE users[i]]
              /\ dbCall' = Ended("upsertUser", u.user, FALSE, "inserted", <<>>)

\* getUserByOpenId: the row of the openId, undefined when there is none or
\* no database.
getUserByOpenId(openIds) ==
  \E openId \in openIds, db \in Connections :
    /\ getDb(db)
    /\ dbCall' =
         IF db = <<>> \/ SelectUser(users, openId) = <<>>
         THEN Ended("getUserByOpenId", OnlyOpenId(openId), FALSE,
                    "undefined", <<>>)
         ELSE Ended("getUserByOpenId", OnlyOpenId(openId), TRUE, "found",
                    SelectUser(users, openId))
    /\ previousUsers' = users
    /\ UNCHANGED <<applications, seq, now, call, response, previous,
                   ownerNotifications, panel, text, users, userSeq, upserts>>

\* The openIds of the two signed-in contexts.
OpenIds == {createAdminContext.user.openId, createUserContext.user.openId}

\* Calls of upsertUser: without openId, a sign-in with a name and the admin
\* role, one of the same openId with a null name, an email and no role, and
\* one of another openId with nothing else.
UpsertInputs ==
  { OnlyOpenId(""),
    [OnlyOpenId("admin-user") EXCEPT !.name = "Admin User", !.role = "admin",
                                     !.loginMethod = "manus"],
    [OnlyOpenId("admin-user") EXCEPT !.name = Null,
                                     !.email = "admin@example.com"],
    OnlyOpenId("regular-user") }

\* The users functions of db.ts under sign-ins that overlap.
NextUsers ==
  \/ Tick
  \/ upsertUserSelects(UpsertInputs)
  \/ upsertUserWrites

SpecUsers == Init /\ [][NextUsers]_vars

(* ---------------------------- no database ------------------------------ *)

\* A process that starts with DATABASE_URL set or not and no instance yet,
\* over tables that are empty or hold one row each.
InitDb ==
  /\ applications \in
       {<<>>, [i \in {1} |-> createApplication(SubmitData(BaseInput), i, 0)]}
  /\ seq = Cardinality(DOMAIN applications)
  /\ now = 0
  /\ call = [op |-> "none", ctx |-> createPublicContext, input |-> Undefined]
  /\ response = Ok(Undefined)
  /\ previous = applications
  /\ ownerNotifications = 0
  /\ panel = PanelClosed
  /\ text = TextIdle
  /\ env \in {[DATABASE_URL |-> set] : set \in BOOLEAN}
  /\ _db = <<>>
  /\ pools = 0
  /\ users \in
       {<<>>, [i \in {1} |-> InsertedUser(OnlyOpenId("admin-user"), i, 0)]}
  /\ userSeq = Cardinality(DOMAIN users)
  /\ upserts = {}
  /\ dbCall = NoDbCall
  /\ previousUsers = users

\* Every function of db.ts that asks getDb() for the database.
NextDb ==
  \/ Submit({BaseInput})
  \/ List({Absent})
  \/ GetById
  \/ UpdateStatus({"aprovado"})
  \/ Stats
  \/ upsertUserSelects({OnlyOpenId(""), OnlyOpenId("admin-user")})
  \/ upsertUserWrites
  \/ getUserByOpenId(OpenIds)

SpecDb == InitDb /\ [][NextDb]_vars

(* ------------------------------ Admin page ----------------------------- *)

\* The state of the server.
serverVars ==
  <<applications, seq, now, call, response, previous, ownerNotifications,
    dbVars, userVars>>

\* The users useAuth may report: none, an admin, a user without the role.
AuthUsers ==
  {NoUser, createAdminContext.user, createUserContext.user}

\* What the Admin component renders: its guards in the order of the code.
View(p) ==
  IF p.authLoading THEN "spinner"
  ELSE IF p.user = NoUser THEN "login"
  ELSE IF p.user.role # "admin" THEN "denied"
  ELSE "dashboard"

\* enabled: !!user, without the role.
QueriesEnabled_AnyUser(p) == p.user # NoUser

\* enabled: !!user && user.role === "admin"
QueriesEnabled(p) == p.user # NoUser /\ p.user.role = "admin"

\* value || undefined
OrUndefined(v) == IF v = "" THEN Undefined ELSE v

\* The input of the list query: availability is handed on as it is.
PanelListInput(filters) ==
  [vehicleType |-> OrUndefined(filters.vehicleType),
   availability |-> filters.availability,
   startDate |-> OrUndefined(filters.startDate),
   endDate |-> OrUndefined(filters.endDate)]

\* What a query holds once the server has answered.
Settled(r) ==
  IF r.code = "OK" THEN [status |-> "success", data |-> r.data]
  ELSE [status |-> "error", data |-> <<>>]

\* The Admin page is opened: nothing known about the user yet.
Mount ==
  /\ ~panel.open
  /\ panel' = [PanelClosed EXCEPT !.open = TRUE]
  /\ UNCHANGED <<serverVars, text>>

\* useAuth reports another loading flag or another user, among the given.
useAuthReports(loadings, authUsers) ==
  \E loading \in loadings, user \in authUsers :
    /\ panel.open
    /\ <<loading, user>> # <<panel.authLoading, panel.user>>
    /\ panel' = [panel EXCEPT !.authLoading = loading, !.user = user]
    /\ UNCHANGED <<serverVars, text>>

\* useAuth reports any loading flag and any user.
useAuth == useAuthReports(BOOLEAN, AuthUsers)

\* onValueChange / onChange of one filter control of the dashboard: a new
\* value makes a new query, which has no data yet.
SetFilter(field, values) ==
  \E v \in values :
    /\ panel.open
    /\ View(panel) = "dashboard"
    /\ v # panel.filters[field]
    /\ panel' = [panel EXCEPT !.filters[field] = v, !.list = IdleQuery]
    /\ UNCHANGED <<serverVars, text>>

\* The button Limpar.
clearFilters ==
  /\ panel.open
  /\ View(panel) = "dashboard"
  /\ panel.filters # EmptyFilters
  /\ panel' = [panel EXCEPT !.filters = EmptyFilters, !.list = IdleQuery]
  /\ UNCHANGED <<serverVars, text>>

\* trpc.applications.list.useQuery fetching, in the session of the user.
PanelListQuery ==
  /\ panel.open
  /\ QueriesEnabled(panel)
  /\ ListCall([user |-> panel.user], PanelListInput(panel.filters))
  /\ panel' = [panel EXCEPT !.list = Settled(response')]
  /\ UNCHANGED text

\* trpc.applications.stats.useQuery fetching, in the session of the user.
PanelStatsQuery ==
  /\ panel.open
  /\ QueriesEnabled(panel)
  /\ StatsCall([user |-> panel.user])
  /\ panel' = [panel EXCEPT !.stats = Settled(response')]
  /\ UNCHANGED text

\* A visitor sends the application form: handleSubmit lets the values that
\* pass formSchema through to the mutation.
Apply(inputs) ==
  \E input \in inputs :
    /\ formSchema(input)
    /\ SubmitCall(createPublicContext, input)
    /\ UNCHANGED clientVars

\* The options of the two filter Selects the runs choose among.
VehicleChoices == {"all", "carro"}
AvailabilityChoices == {"all", "15_dias"}

\* The Admin page over the router: auth, the two Selects, Limpar, queries.
NextPanel ==
  \/ Mount
  \/ useAuth
  \/ SetFilter("vehicleType", VehicleChoices)
  \/ SetFilter("availability", AvailabilityChoices)
  \/ clearFilters
  \/ PanelListQuery
  \/ PanelStatsQuery
  \/ Apply(ListSubmitInputs)

SpecPanel == Init /\ [][NextPanel]_vars

\* The ids of the vehicle checkboxes of the application form.
vehicleOptions == {"moto", "carro", "van", "caminhao", "onibus"}

\* Submit inputs that differ in vehicleTypes: the test's, one with a tag that
\* is no vehicle option, one with a tag twice, one with none.
TagInputs ==
  {BaseInput,
   [BaseInput EXCEPT !.vehicleTypes = <<"trator">>],
   [BaseInput EXCEPT !.vehicleTypes = <<"carro", "carro">>],
   [BaseInput EXCEPT !.vehicleTypes = <<>>]}

\* The router under every vehicleTypes array, read back by id.
NextTags ==
  \/ Submit(TagInputs)
  \/ GetById

SpecTags == Init /\ [][NextTags]_vars

\* The values the two date inputs of the dashboard take: empty, or a day.
DateChoices == DateStrings \cup {""}

\* The dashboard as an admin sees it once useAuth has answered.
InitDates ==
  /\ InitServer
  /\ panel = [PanelClosed EXCEPT !.open = TRUE, !.authLoading = FALSE,
                                 !.user = createAdminContext.user]
  /\ text = TextIdle

\* The dashboard's date filter over applications sent at different instants.
NextDates ==
  \/ Tick
  \/ Apply(ListSubmitInputs)
  \/ SetFilter("availability", availabilityEnum)
  \/ SetFilter("startDate", DateChoices)
  \/ SetFilter("endDate", DateChoices)
  \/ PanelListQuery

SpecDates == InitDates /\ [][NextDates]_vars

\* The statuses of the buttons, with one for pendente among them.
PanelStatuses_WithPendente == statusEnum

\* The statuses the three buttons of the detail dialog ask for.
PanelStatuses == {"em_analise", "aprovado", "rejeitado"}

\* Buttons that stay enabled while a mutation is pending.
StatusButtonsDisabled_Never(p) == FALSE

\* disabled={updateStatusMutation.isPending}
StatusButtonsDisabled(p) == p.mutation = "pending"

\* A sequence without its k-th element.
RemoveAt(s, k) == SubSeq(s, 1, k - 1) \o SubSeq(s, k + 1, Len(s))

\* An onSuccess that leaves the queries as they are.
Invalidated_Not(query) == query

\* invalidate(): the query is stale and keeps its data until fetched again.
Invalidated(query) == [query EXCEPT !.status = "invalidated"]

\* The eye button of a row of the table.
OpenDetail ==
  \E k \in 1..Len(panel.list.data) :
    /\ panel.open
    /\ View(panel) = "dashboard"
    /\ panel.selectedApplication # <<panel.list.data[k]>>
    /\ panel' = [panel EXCEPT !.selectedApplication = <<panel.list.data[k]>>]
    /\ UNCHANGED <<serverVars, text>>

\* onOpenChange of the detail dialog.
CloseDetail ==
  /\ panel.open
  /\ View(panel) = "dashboard"
  /\ panel.selectedApplication # <<>>
  /\ panel' = [panel EXCEPT !.selectedApplication = <<>>]
  /\ UNCHANGED <<serverVars, text>>

\* A status button of the detail dialog: handleStatusChange starts the
\* mutation for the selected application.
handleStatusChange ==
  \E status \in PanelStatuses :
    /\ panel.open
    /\ View(panel) = "dashboard"
    /\ panel.selectedApplication # <<>>
    /\ ~StatusButtonsDisabled(panel)
    /\ Len(panel.inflight) < MaxInFlight
    /\ panel' = [panel EXCEPT
                   !.mutation = "pending",
                   !.inflight = Append(@, [id |-> panel.selectedApplication[1].id,
                                           status |-> status])]
    /\ UNCHANGED <<serverVars, text>>

\* The server answers one updateStatus request of the page, in the session
\* of the user: onSuccess or onError runs, and the mutation the page
\* watches, the last one started, takes the outcome.
MutationSettles ==
  \E k \in 1..Len(panel.inflight) :
    /\ panel.open
    /\ UpdateStatusCall([user |-> panel.user], panel.inflight[k].id,
                        panel.inflight[k].status)
    /\ LET outcome == IF response'.code = "OK" THEN "success" ELSE "error"
           watched == IF k = Len(panel.inflight) THEN outcome ELSE panel.mutation
       IN  panel' =
             IF response'.code = "OK"
               THEN [panel EXCEPT !.inflight = RemoveAt(@, k),
                                  !.mutation = watched,
                                  !.list = Invalidated(@),
                                  !.stats = Invalidated(@),
                                  !.selectedApplication = <<>>]
               ELSE [panel EXCEPT !.inflight = RemoveAt(@, k),
                                  !.mutation = watched]
    /\ UNCHANGED text

\* The test's application has been sent and stored twice, and an admin has
\* the dashboard open with its availability selected.
InitMutation ==
  /\ applications =
       [i \in {1, 2} |-> createApplication(SubmitData(BaseInput), i, 0)]
  /\ seq = 2
  /\ Connected
  /\ NoUsers
  /\ now = 0
  /\ call = [op |-> "applications.submit", ctx |-> createPublicContext,
             input |-> BaseInput]
  /\ response = Ok([success |-> TRUE, id |-> 2])
  /\ previous = [i \in {1} |-> createApplication(SubmitData(BaseInput), i, 0)]
  /\ ownerNotifications = 0
  /\ panel = [PanelClosed EXCEPT !.open = TRUE, !.authLoading = FALSE,
                                 !.user = createAdminContext.user,
                                 !.filters.availability = BaseInput.availability]
  /\ text = TextIdle

\* The dashboard with its detail dialog and status buttons, in a session
\* that may end and come back.
NextMutation ==
  \/ useAuthReports({FALSE}, {NoUser, createAdminContext.user})
  \/ PanelListQuery
  \/ OpenDetail
  \/ CloseDetail
  \/ handleStatusChange
  \/ MutationSettles

SpecMutation == InitMutation /\ [][NextMutation]_vars

(* --------------------------- CPF check and masks ----------------------- *)

\* The one-character string of a digit.
Chr(n) == CHOOSE c \in Digits : parseInt(c) = n

\* Nine leading digits of a CPF: of the test's CPF, of repeated digits, and
\* of numbers whose first, second or both check remainders are 10.
CpfBases ==
  {<<5, 2, 9, 9, 8, 2, 2, 4, 7>>, <<1, 1, 1, 1, 1, 1, 1, 1, 1>>,
   <<0, 0, 0, 0, 0, 0, 0, 0, 0>>, <<1, 2, 3, 4, 5, 6, 7, 8, 9>>,
   <<7, 3, 6, 6, 2, 5, 8, 5, 1>>, <<5, 5, 4, 5, 8, 8, 0, 8, 1>>}

\* The digits of base followed by the digits of tail, as characters.
DigitString(base, tail) ==
  [k \in 1..(Len(base) + Len(tail)) |->
     IF k <= Len(base) THEN Chr(base[k]) ELSE Chr(tail[k - Len(base)])]

\* A digit string of at least ten digits written with dots and a dash.
Dotted(d) ==
  SubSeq(d, 1, 3) \o <<".">> \o SubSeq(d, 4, 6) \o <<".">> \o SubSeq(d, 7, 9)
    \o <<"-">> \o SubSeq(d, 10, Len(d))

\* A digit string of at least five digits among letters, blanks and a slash.
Noisy(d) ==
  <<"n", " ">> \o SubSeq(d, 1, 5) \o <<" ", "/">> \o SubSeq(d, 6, Len(d))
    \o <<"x">>

\* Strings handed to isValidCPF: every base with every pair of check digits,
\* plain, dotted and noisy, and with ten and twelve digits.
CpfTexts ==
  UNION {LET d == DigitString(base, <<a, b>>)
         IN  {d, Dotted(d), Noisy(d),
              DigitString(base, <<a>>), Dotted(DigitString(base, <<a>>)),
              DigitString(base, <<a, b, b>>)}
         : base \in CpfBases, a \in 0..9, b \in 0..9}

\* The digits 1234567890123... up to n of them.
Run(n) == [k \in 1..n |-> Chr(k % 10)]

\* A string with a dash after each of its characters.
Dashed(s) == [k \in 1..(2 * Len(s)) |-> IF k % 2 = 1 THEN s[(k + 1) \div 2] ELSE "-"]

\* Strings typed or pasted into a masked field: up to MaxDigits digits,
\* plain, dashed, and between other characters.
MaskTexts ==
  UNION {{Run(n), Dashed(Run(n)), <<"(", "a">> \o Run(n) \o <<")", " ", ".">>}
         : n \in 0..MaxDigits}

TextInputs == CpfTexts \cup MaskTexts

\* value was typed into a field of the form.
Typed(value) == [TextIdle EXCEPT !.stage = "typed", !.raw = value]

\* The form with one string typed, before any handler ran.
InitText ==
  /\ InitServer
  /\ panel = PanelClosed
  /\ text \in {Typed(value) : value \in TextInputs}

\* The refine of the cpf field in the router's schema and in the form's.
CheckCPF ==
  /\ text.stage = "typed"
  /\ text' = [text EXCEPT !.stage = "checked",
                          !.valid = isValidCPF(text.raw),
                          !.formValid = formIsValidCPF(text.raw)]
  /\ UNCHANGED <<serverVars, panel>>

\* handleCPFChange on the typed string, then on the value it has set.
handleCPFChange ==
  /\ \/ /\ text.stage = "typed"
        /\ text' = [text EXCEPT !.stage = "cpf", !.masked = formatCPF(text.raw)]
     \/ /\ text.stage = "cpf"
        /\ text' = [text EXCEPT !.stage = "cpf again",
                                !.remasked = formatCPF(text.masked)]
  /\ UNCHANGED <<serverVars, panel>>

\* handlePhoneChange on the typed string, then on the value it has set.
handlePhoneChange ==
  /\ \/ /\ text.stage = "typed"
        /\ text' = [text EXCEPT !.stage = "phone",
                                !.masked = formatPhone(text.raw)]
     \/ /\ text.stage = "phone"
        /\ text' = [text EXCEPT !.stage = "phone again",
                                !.remasked = formatPhone(text.masked)]
  /\ UNCHANGED <<serverVars, panel>>

\* The CPF check and the two masks over every string of TextInputs.
NextText ==
  \/ CheckCPF
  \/ handleCPFChange
  \/ handlePhoneChange

SpecText == InitText /\ [][NextText]_vars

\* The cpf values of the submit inputs.
FormCpfs == {input.cpf : input \in SubmitInputs}

\* The form with a cpf typed, before anything is checked or sent.
InitForm ==
  /\ InitServer
  /\ panel = PanelClosed
  /\ text \in {Typed(value) : value \in FormCpfs}

\* The application form: its cpf check next to the router's, and its
\* submission under every submit input.
NextForm ==
  \/ CheckCPF
  \/ Apply(SubmitInputs)

SpecForm == InitForm /\ [][NextForm]_vars

(* ------------------------------ properties ----------------------------- *)

AdminOps ==
  {"applications.list", "applications.getById", "applications.updateStatus",
   "applications.stats"}

\* The last request was refused.
Rejected == response.code # "OK"

\* Ids stored before and after the last request.
Kept == DOMAIN previous \cap DOMAIN applications

\* Ids the last request added.
Added == DOMAIN applications \ DOMAIN previous

\* C1: an admin procedure called by anyone but an authenticated admin is
\* refused and leaves the stored applications as they were; a caller with
\* role 'user' gets FORBIDDEN 'Acesso restrito a administradores'.
C1_AdminOnly ==
  (call.op \in AdminOps /\ call.ctx.user.role # "admin") =>
    /\ Rejected
    /\ applications = previous
    /\ call.ctx.user.role = "user" =>
         /\ response.code = "FORBIDDEN"
         /\ response.message = "Acesso restrito a administradores"

\* A role-'user' caller asked for a valid status change of a stored
\* application and was refused.
C1_Witness ==
  /\ call.op = "applications.updateStatus"
  /\ call.ctx = createUserContext
  /\ call.input.id \in DOMAIN applications
  /\ call.input.status \in statusEnum
  /\ call.input.status # applications[call.input.id].status
  /\ response.code = "FORBIDDEN"

\* C2: the status of a stored application changes only through a successful
\* applications.updateStatus call of an admin.
C2_StatusChangesOnlyByAdminUpdate ==
  \A id \in Kept :
    applications[id].status # previous[id].status =>
      /\ call.op = "applications.updateStatus"
      /\ response.code = "OK"
      /\ call.ctx.user.role = "admin"

\* An admin's updateStatus has just changed the status of an application.
C2_Witness ==
  /\ call.op = "applications.updateStatus"
  /\ \E id \in Kept : applications[id].status # previous[id].status

\* C3: an admin's updateStatus(id, s2) on a stored application succeeds and
\* leaves it with status s2, whatever its status was.
C3_AnyTransitionSucceeds ==
  ( /\ call.op = "applications.updateStatus"
    /\ call.ctx.user.role = "admin"
    /\ call.input.status \in statusEnum
    /\ call.input.id \in DOMAIN previous ) =>
      /\ response.code = "OK"
      /\ call.input.id \in DOMAIN applications
      /\ applications[call.input.id].status = call.input.status

\* An approved application has been set back to pendente.
C3_Witness ==
  /\ call.op = "applications.updateStatus"
  /\ response.code = "OK"
  /\ call.input.id \in Kept
  /\ previous[call.input.id].status = "aprovado"
  /\ applications[call.input.id].status = "pendente"

\* C4 as stated: the successive distinct statuses of an application follow
\* pendente -> em_analise -> aprovado | rejeitado.
C4_FixedWorkflow ==
  \A id \in Kept :
    applications[id].status # previous[id].status =>
      <<previous[id].status, applications[id].status>> \in Workflow

\* C4 amended: an application starts as pendente, and each later change of
\* its status is the effect of an updateStatus call and leads to the status
\* that call asked for, whichever of the four it is.
C4_StartsPendingThenAnyOrder ==
  /\ \A id \in Added : applications[id].status = "pendente"
  /\ \A id \in Kept :
       applications[id].status # previous[id].status =>
         /\ call.op = "applications.updateStatus"
         /\ call.input.id = id
         /\ applications[id].status = call.input.status
         /\ call.input.status \in statusEnum

\* A rejected application has moved to em_analise, against the order.
C4_Witness ==
  \E id \in Kept :
    /\ previous[id].status = "rejeitado"
    /\ applications[id].status = "em_analise"

\* C5: every stored status is one of the four, and an updateStatus whose
\* status is none of them is refused before it reaches the table and changes
\* nothing.
C5_StatusInEnum ==
  /\ \A id \in DOMAIN applications :
       applications[id].status \in {"pendente", "em_analise", "aprovado", "rejeitado"}
  /\ (call.op = "applications.updateStatus"
        /\ call.input.status \notin {"pendente", "em_analise", "aprovado", "rejeitado"}) =>
       /\ response.code \in {"BAD_REQUEST", "FORBIDDEN", "UNAUTHORIZED"}
       /\ applications = previous

\* An admin asked for a status outside the four on a stored application.
C5_Witness ==
  /\ call.op = "applications.updateStatus"
  /\ call.ctx = createAdminContext
  /\ call.input.status = "arquivado"
  /\ call.input.id \in DOMAIN applications
  /\ response.code = "BAD_REQUEST"

\* C6: an application created by submit is pendente right after its
\* creation, whatever the input holds.
C6_CreatedPending ==
  (call.op = "applications.submit" /\ response.code = "OK") =>
    /\ Added = {response.data.id}
    /\ applications[response.data.id].status = "pendente"

\* A submit whose input carried status 'aprovado' has created an application.
C6_Witness ==
  /\ call.op = "applications.submit"
  /\ response.code = "OK"
  /\ call.input.status = "aprovado"
  /\ response.data.id \in DOMAIN applications

\* The fields of a stored application that come from the submit input.
StoresInput(app, input) ==
  /\ app.fullName = input.fullName
  /\ app.phone = input.phone
  /\ app.email = (IF input.email \in {Undefined, ""} THEN Null ELSE input.email)
  /\ app.cpf = input.cpf
  /\ app.city = input.city
  /\ app.state = input.state
  /\ app.vehicleTypes = input.vehicleTypes
  /\ app.experienceYears = input.experienceYears
  /\ app.availability = input.availability
  /\ app.hasPendingFines = input.hasPendingFines
  /\ app.acceptsLongTrips = input.acceptsLongTrips
  /\ app.preferredSchedule = input.preferredSchedule
  /\ app.hasExperienceWithCargo = input.hasExperienceWithCargo
  /\ app.hasExperienceWithPassengers = input.hasExperienceWithPassengers
  /\ app.notes = (IF input.notes \in {Undefined, ""} THEN Null ELSE input.notes)

\* The last submit added one application holding its input, left the others
\* alone and returned the new id.
SubmitStored ==
  /\ response.code = "OK"
  /\ response.data.success
  /\ Added = {response.data.id}
  /\ StoresInput(applications[response.data.id], call.input)
  /\ DOMAIN previous \subseteq DOMAIN applications
  /\ \A id \in DOMAIN previous : applications[id] = previous[id]

\* C7: submit, for any caller and any input that passes validation, adds
\* exactly one application holding the submitted values, leaves the others
\* unchanged and returns {success: true, id} with the new id.
C7_SubmitStoresValidInput ==
  (call.op = "applications.submit" /\ SubmitInputValid(call.input)) =>
    SubmitStored

\* CPFs that fail the check: repeated digit, wrong check digit, too short.
InvalidCpfs == {CpfAllEqual, CpfBadCheck, CpfShort}

\* C8: a submit whose CPF fails the check is refused and creates nothing.
C8_InvalidCpfRejected ==
  (call.op = "applications.submit" /\ call.input.cpf \in InvalidCpfs) =>
    /\ response.code = "BAD_REQUEST"
    /\ applications = previous

\* A submit with the CPF 111.111.111-11 was refused while an application
\* was stored.
C8_Witness ==
  /\ call.op = "applications.submit"
  /\ call.input.cpf = CpfAllEqual
  /\ Rejected
  /\ DOMAIN applications # {}

\* An input misses one of the mandatory fields.
MissesMandatory(input) ==
  \/ Len(input.fullName) < 3
  \/ Len(input.phone) < 10
  \/ input.cpf \in InvalidCpfs
  \/ input.vehicleTypes = <<>>
  \/ input.availability \notin {"imediata", "15_dias", "30_dias"}

\* C9: a submit that misses a mandatory field is refused and creates nothing.
C9_MandatoryFields ==
  (call.op = "applications.submit" /\ MissesMandatory(call.input)) =>
    /\ Rejected
    /\ applications = previous

\* A submit without vehicle types was refused while an application was stored.
C9_Witness ==
  /\ call.op = "applications.submit"
  /\ call.input.vehicleTypes = <<>>
  /\ Rejected
  /\ DOMAIN applications # {}

\* The number of stored applications with status s.
WithStatus(s) == Cardinality({id \in DOMAIN applications : applications[id].status = s})

\* C10: stats returns the number of stored applications and the number in
\* each status, and the total is the sum of the four status counts.
C10_StatsAddUp ==
  (call.op = "applications.stats" /\ response.code = "OK") =>
    /\ response.data.total = Cardinality(DOMAIN applications)
    /\ response.data.pendente = WithStatus("pendente")
    /\ response.data.em_analise = WithStatus("em_analise")
    /\ response.data.aprovado = WithStatus("aprovado")
    /\ response.data.rejeitado = WithStatus("rejeitado")
    /\ response.data.total =
         response.data.pendente + response.data.em_analise
           + response.data.aprovado + response.data.rejeitado

\* Stats were returned for two applications, one of them em_analise.
C10_Witness ==
  /\ call.op = "applications.stats"
  /\ response.code = "OK"
  /\ response.data.total = 2
  /\ response.data.em_analise = 1

\* A filter of a list input that is supplied: present and not the empty string.
Supplied(v) == v # Undefined /\ v # ""

\* The stored application satisfies every supplied filter of the list input.
SatisfiesFilters(app, input) ==
  IsAbsent(input) \/
    /\ Supplied(input.availability) => app.availability = input.availability
    /\ Supplied(input.startDate) => app.createdAt >= NewDate(input.startDate)
    /\ Supplied(input.endDate) => app.createdAt <= NewDate(input.endDate)
    /\ Supplied(input.vehicleType) =>
         Includes(app.vehicleTypes, input.vehicleType)

\* The data of the response is exactly the stored applications of ids, each
\* once.
ReturnsExactly(ids) ==
  /\ response.code = "OK"
  /\ Len(response.data) = Cardinality(ids)
  /\ {response.data[k] : k \in 1..Len(response.data)} =
       {applications[id] : id \in ids}

\* C11: applications.list called by an admin returns exactly the stored
\* applications that satisfy every supplied filter (availability equal,
\* createdAt from startDate to endDate inclusive, vehicleType a member of
\* vehicleTypes); an absent or empty-string filter does not restrict, and
\* with no filter every stored application is returned.
C11_ListReturnsMatching ==
  (call.op = "applications.list" /\ call.ctx = createAdminContext) =>
    ReturnsExactly({id \in DOMAIN applications :
                      SatisfiesFilters(applications[id], call.input)})

\* C12: applications.getById called by an admin returns the stored
\* application with that id, answers NOT_FOUND 'Candidatura não encontrada'
\* when there is none, and leaves the table as it was.
C12_GetByIdReturnsRow ==
  (call.op = "applications.getById" /\ call.ctx = createAdminContext) =>
    /\ applications = previous
    /\ IF call.input.id \in DOMAIN applications
         THEN /\ response.code = "OK"
              /\ response.data = applications[call.input.id]
              /\ response.data.id = call.input.id
         ELSE /\ response.code = "NOT_FOUND"
              /\ response.message = "Candidatura não encontrada"

\* An admin asked for the second of two stored applications and got it.
C12_Witness ==
  /\ call.op = "applications.getById"
  /\ call.ctx = createAdminContext
  /\ Cardinality(DOMAIN applications) = 2
  /\ call.input.id \in DOMAIN applications
  /\ \E other \in DOMAIN applications : other < call.input.id
  /\ response.code = "OK"
  /\ response.data.id = call.input.id

\* An admin asked for an id that is not stored, on a table that is not empty.
C12_WitnessNotFound ==
  /\ call.op = "applications.getById"
  /\ call.ctx = createAdminContext
  /\ DOMAIN applications # {}
  /\ call.input.id \notin DOMAIN applications
  /\ response.code = "NOT_FOUND"

\* A vehicleTypes array that is a non-empty set of vehicle tags: every
\* element one of the five tags, none twice.
IsTagSet(types) ==
  /\ Len(types) >= 1
  /\ \A k \in 1..Len(types) : types[k] \in vehicleOptions
  /\ \A j, k \in 1..Len(types) : j # k => types[j] # types[k]

\* C13: the vehicleTypes of every stored application is a non-empty set of
\* tags among moto, carro, van, caminhao, onibus, with no other tag and no
\* duplicate, whatever input submit accepted.
C13_VehicleTypesAreTagSets ==
  \A id \in DOMAIN applications : IsTagSet(applications[id].vehicleTypes)

\* C14: whenever a new application is received, that is after every
\* successful applications.submit, a notification is sent to the owner: the
\* owner has been notified at least once per stored application.
C14_OwnerNotified ==
  /\ ownerNotifications >= Cardinality(DOMAIN applications)
  /\ (call.op = "applications.submit" /\ response.code = "OK") =>
       ownerNotifications >= 1

\* The last request was a query of the Admin page.
PanelQueried == call.op \in {"applications.list", "applications.stats"}

\* C15: the Admin page shows the dashboard only when auth loading has
\* finished and the user is present with role 'admin'; while loading it shows
\* a spinner, with no user the login prompt, with a non-admin user 'Acesso
\* Negado'; and the list and stats queries are issued only when the user is
\* present with role 'admin'.
C15_PanelProtected ==
  panel.open =>
    /\ View(panel) = "dashboard" <=>
         (~panel.authLoading /\ panel.user # NoUser /\ panel.user.role = "admin")
    /\ panel.authLoading => View(panel) = "spinner"
    /\ (~panel.authLoading /\ panel.user = NoUser) => View(panel) = "login"
    /\ (~panel.authLoading /\ panel.user # NoUser /\ panel.user.role # "admin")
         => View(panel) = "denied"
    /\ PanelQueried =>
         (call.ctx.user # NoUser /\ call.ctx.user.role = "admin")

\* The dashboard is shown with a list the server returned to the admin.
C15_Witness ==
  /\ panel.open
  /\ View(panel) = "dashboard"
  /\ panel.list.status = "success"
  /\ Len(panel.list.data) >= 1
  /\ panel.stats.status = "success"

\* A user without the admin role sees 'Acesso Negado' and no query ran.
C15_WitnessDenied ==
  /\ panel.open
  /\ View(panel) = "denied"
  /\ panel.list.status = "idle"
  /\ panel.stats.status = "idle"
  /\ DOMAIN applications # {}

\* Digit i (from 0) of the string left when the non-digits of value are
\* removed.
D(value, i) == parseInt(SelectSeq(value, IsDigit)[i + 1])

\* A remainder, with 10 replaced by 0.
TenIsZero(r) == IF r = 10 THEN 0 ELSE r

\* The rule of a CPF: eleven digits, not all equal, the last two being the
\* check digits of the ones before them.
CpfRule(value) ==
  /\ Len(SelectSeq(value, IsDigit)) = 11
  /\ \E i \in 1..10 : D(value, i) # D(value, 0)
  /\ D(value, 9) =
       TenIsZero(((D(value, 0) * 10 + D(value, 1) * 9 + D(value, 2) * 8
                   + D(value, 3) * 7 + D(value, 4) * 6 + D(value, 5) * 5
                   + D(value, 6) * 4 + D(value, 7) * 3 + D(value, 8) * 2)
                  * 10) % 11)
  /\ D(value, 10) =
       TenIsZero(((D(value, 0) * 11 + D(value, 1) * 10 + D(value, 2) * 9
                   + D(value, 3) * 8 + D(value, 4) * 7 + D(value, 5) * 6
                   + D(value, 6) * 5 + D(value, 7) * 4 + D(value, 8) * 3
                   + D(value, 9) * 2) * 10) % 11)

\* C16: isValidCPF(cpf) is true exactly when cpf, with every non-digit
\* removed, has 11 digits d0..d10 that are not all equal, with
\* d9 = (sum of d_i*(10-i), i in 0..8) * 10 mod 11 and
\* d10 = (sum of d_i*(11-i), i in 0..9) * 10 mod 11, a result of 10 being 0;
\* it is false for every other string.
C16_IsValidCpfIsTheRule ==
  text.stage = "checked" => (text.valid <=> CpfRule(text.raw))

\* A noisy string was found valid whose first check digit is the 0 that
\* stands for a remainder of 10.
C16_Witness ==
  /\ text.stage = "checked"
  /\ text.valid
  /\ Len(text.raw) > 11
  /\ D(text.raw, 9) = 0
  /\ ((D(text.raw, 0) * 10 + D(text.raw, 1) * 9 + D(text.raw, 2) * 8
       + D(text.raw, 3) * 7 + D(text.raw, 4) * 6 + D(text.raw, 5) * 5
       + D(text.raw, 6) * 4 + D(text.raw, 7) * 3 + D(text.raw, 8) * 2)
      * 10) % 11 = 10

\* Eleven equal digits, whose check digits are right, were found invalid.
C16_WitnessRepeated ==
  /\ text.stage = "checked"
  /\ ~text.valid
  /\ text.raw = DigitString(<<1, 1, 1, 1, 1, 1, 1, 1, 1>>, <<1, 1>>)

\* The first eleven digits of value, in order (all of them when fewer).
FirstEleven(value) ==
  LET ds == SelectSeq(value, IsDigit)
  IN  SubSeq(ds, 1, IF Len(ds) < 11 THEN Len(ds) ELSE 11)

\* The separators of 000.000.000-00 and of (00) 00000-0000.
CpfSeparators == {".", "-"}
PhoneSeparators == {"(", ")", " ", "-"}

\* masked holds exactly the first eleven digits of value, in order, and
\* besides them only characters of separators.
KeepsDigits(masked, value, separators) ==
  /\ SelectSeq(masked, IsDigit) = FirstEleven(value)
  /\ \A k \in 1..Len(masked) : masked[k] \in Digits \cup separators

\* C17: the CPF and phone masks keep only digits and are idempotent:
\* formatCPF(v) and formatPhone(v) contain, in order, exactly the first 11
\* digits of v (fewer when v has fewer) plus only the separators of
\* 000.000.000-00 and (00) 00000-0000, and the mask of a mask's output is
\* that output.
C17_MasksKeepDigitsIdempotent ==
  /\ text.stage \in {"cpf", "cpf again"} =>
       KeepsDigits(text.masked, text.raw, CpfSeparators)
  /\ text.stage \in {"phone", "phone again"} =>
       KeepsDigits(text.masked, text.raw, PhoneSeparators)
  /\ text.stage \in {"cpf again", "phone again"} =>
       text.remasked = text.masked

\* The CPF mask was applied to a string of more than eleven digits among
\* other characters, then to its own output of fourteen characters.
C17_Witness ==
  /\ text.stage = "cpf again"
  /\ Len(SelectSeq(text.raw, IsDigit)) > 11
  /\ Len(text.raw) > Len(SelectSeq(text.raw, IsDigit))
  /\ Len(text.masked) = 14
  /\ text.remasked = text.masked

\* The phone mask was applied to such a string and to its own output, which
\* has all four separators.
C17_WitnessPhone ==
  /\ text.stage = "phone again"
  /\ Len(SelectSeq(text.raw, IsDigit)) > 11
  /\ Len(text.raw) > Len(SelectSeq(text.raw, IsDigit))
  /\ Len(text.masked) = 15
  /\ text.remasked = text.masked

\* The list query of the Admin page has been answered for the filters now
\* selected, and the table has not changed since.
ListedByPanel ==
  /\ panel.open
  /\ call.op = "applications.list"
  /\ panel.list.status # "idle"

\* The options that stand for no restriction: 'Todos' / 'Todas', and the
\* empty value of a Select never used or reset by Limpar.
NoRestriction == {"all", ""}

\* The stored applications the selects of the panel ask for.
PanelSelects(app) ==
  /\ panel.filters.vehicleType \notin NoRestriction =>
       Includes(app.vehicleTypes, panel.filters.vehicleType)
  /\ panel.filters.availability \notin NoRestriction =>
       app.availability = panel.filters.availability

\* C18: in the admin panel the table is filtered by the selected vehicle
\* type and availability, and 'Todos', 'Todas' or 'Limpar' mean no
\* restriction on that field: the list query then succeeds and returns the
\* applications of every vehicle type, respectively every availability.
C18_AllMeansNoRestriction ==
  ListedByPanel =>
    /\ panel.list.status = "success"
    /\ {panel.list.data[k] : k \in 1..Len(panel.list.data)} =
         {applications[id] : id \in {i \in DOMAIN applications :
                                       PanelSelects(applications[i])}}

\* C19: every application is stored with its creation timestamp: createdAt
\* is set when submit creates the application, to an instant that has been
\* reached, and no operation changes it afterwards, updateStatus included.
C19_CreatedAtSetOnce ==
  /\ \A id \in Added : applications[id].createdAt <= now
  /\ \A id \in Kept : applications[id].createdAt = previous[id].createdAt

\* An admin changed the status of an application created at an earlier
\* instant than the other stored one.
C19_Witness ==
  /\ call.op = "applications.updateStatus"
  /\ response.code = "OK"
  /\ call.input.id \in Kept
  /\ applications[call.input.id].status # previous[call.input.id].status
  /\ \E other \in Kept :
       applications[other].createdAt > applications[call.input.id].createdAt

\* The calendar day an instant falls on.
CalendarDay(t) == t \div TicksPerDay

\* The application was created on a day of the range the two date inputs
\* select, the chosen days included.
InDateRange(app) ==
  /\ panel.filters.startDate # "" =>
       CalendarDay(app.createdAt) >= DayOf(panel.filters.startDate)
  /\ panel.filters.endDate # "" =>
       CalendarDay(app.createdAt) <= DayOf(panel.filters.endDate)

\* C20: with the panel's date filter, the days chosen as 'Data Início' and
\* 'Data Fim' are both part of the range: an application created at any time
\* of day on the chosen end date, or on the chosen start date, is in the
\* list result.
C20_DateRangeIncludesBothDays ==
  (ListedByPanel /\ panel.list.status = "success") =>
    \A id \in DOMAIN applications :
      (PanelSelects(applications[id]) /\ InDateRange(applications[id])) =>
        \E k \in 1..Len(panel.list.data) : panel.list.data[k].id = id

\* The last request was an updateStatus the server answered with success.
Updated ==
  /\ call.op = "applications.updateStatus"
  /\ response.code = "OK"

\* C22: a successful updateStatus(id, s) changes only the status field of
\* the application with that id: its other fields, createdAt and updatedAt
\* included, and every other application are as before, and no application
\* is added or removed.
C22_UpdateChangesStatusOnly ==
  Updated =>
    /\ DOMAIN applications = DOMAIN previous
    /\ \A id \in DOMAIN applications :
         applications[id] =
           IF id = call.input.id
             THEN [previous[id] EXCEPT !.status = call.input.status]
             ELSE previous[id]

\* The status of one of two stored applications was changed after the
\* other, which keeps another status, had been created at a later instant.
C22_Witness ==
  /\ Updated
  /\ call.input.id \in DOMAIN applications
  /\ applications[call.input.id].status # previous[call.input.id].status
  /\ \E other \in DOMAIN applications :
       /\ applications[other].status # applications[call.input.id].status
       /\ applications[other].createdAt > applications[call.input.id].updatedAt

\* C23: an admin's updateStatus for an id that matches no stored application
\* returns {success: true} without raising NOT_FOUND and leaves every stored
\* application unchanged, whereas getById raises NOT_FOUND for such an id.
C23_UpdateOfUnknownIdSucceeds ==
  /\ ( /\ call.op = "applications.updateStatus"
       /\ call.ctx = createAdminContext
       /\ call.input.status \in statusEnum
       /\ call.input.id \notin DOMAIN previous ) =>
       /\ response.code = "OK"
       /\ response.data = [success |-> TRUE]
       /\ applications = previous
  /\ ( /\ call.op = "applications.getById"
       /\ call.ctx = createAdminContext
       /\ call.input.id \notin DOMAIN previous ) =>
       response.code = "NOT_FOUND"

\* An admin asked for a new status of an id above the two stored ones and
\* was answered with success.
C23_Witness ==
  /\ call.op = "applications.updateStatus"
  /\ call.ctx = createAdminContext
  /\ Cardinality(DOMAIN applications) = 2
  /\ \A id \in DOMAIN applications :
       id < call.input.id /\ applications[id].status # call.input.status
  /\ response.code = "OK"

\* C24: applications.list returns its result ordered by creation timestamp,
\* newest first: of two consecutive returned applications the first was not
\* created before the second, also when the vehicleType filter is applied.
C24_ListNewestFirst ==
  (call.op = "applications.list" /\ response.code = "OK") =>
    \A k \in 1..(Len(response.data) - 1) :
      response.data[k].createdAt >= response.data[k + 1].createdAt

\* A list filtered by vehicle type returned two applications created at
\* different instants.
C24_Witness ==
  /\ call.op = "applications.list"
  /\ response.code = "OK"
  /\ ~IsAbsent(call.input)
  /\ Supplied(call.input.vehicleType)
  /\ Len(response.data) = 2
  /\ response.data[1].createdAt > response.data[2].createdAt

\* C25: no operation of the API deletes an application: the set of stored
\* ids only grows, each successful submit adds one id different from every
\* id already stored, and the total reported by stats never decreases (it is
\* the number of stored ids, which is never below what it was).
C25_NoDeletion ==
  /\ DOMAIN previous \subseteq DOMAIN applications
  /\ (call.op = "applications.submit" /\ response.code = "OK") =>
       /\ Added = {response.data.id}
       /\ Cardinality(DOMAIN applications) = Cardinality(DOMAIN previous) + 1
  /\ (call.op # "applications.submit" \/ response.code # "OK") => Added = {}
  /\ (call.op = "applications.stats" /\ response.code = "OK") =>
       /\ response.data.total = Cardinality(DOMAIN applications)
       /\ response.data.total >= Cardinality(DOMAIN previous)

\* A second application was stored under a new id after the first had
\* changed its status.
C25_Witness ==
  /\ call.op = "applications.submit"
  /\ response.code = "OK"
  /\ Cardinality(DOMAIN applications) = 2
  /\ \E id \in DOMAIN previous :
       id # response.data.id /\ applications[id].status # StatusDefault

\* C26: client-side and server-side validation agree in the safe direction:
\* every value the form's schema lets through (phone of at least 14
\* characters, CPF valid by the form's isValidCPF, the other field rules) is
\* accepted by the input schema of submit, and the two isValidCPF functions
\* give the same result on every string.
C26_FormValuesPassServerSchema ==
  /\ call.op = "applications.submit" =>
       /\ response.code # "BAD_REQUEST"
       /\ Len(call.input.phone) >= 14
  /\ text.stage = "checked" => text.formValid = text.valid

\* The form sent a phone of fourteen characters or more with a CPF both
\* functions found valid, and the router stored it.
C26_Witness ==
  /\ call.op = "applications.submit"
  /\ response.code = "OK"
  /\ Len(call.input.phone) >= 14
  /\ text.stage = "checked"
  /\ text.formValid
  /\ text.valid
  /\ text.raw = call.input.cpf

\* The form sent values the router's schema accepts and a column does not
\* hold.
C26_WitnessOverlong ==
  /\ call.op = "applications.submit"
  /\ response.code = "INTERNAL_SERVER_ERROR"

\* C21: through the admin panel the only statuses that can be requested are
\* em_analise, aprovado and rejeitado: no request of the panel, waiting or
\* answered, asks for pendente, so an application moved out of pendente
\* through the panel does not return to it.
C21_PanelNeverAsksPendente ==
  /\ \A k \in 1..Len(panel.inflight) :
       panel.inflight[k].status \in {"em_analise", "aprovado", "rejeitado"}
  /\ call.op = "applications.updateStatus" =>
       call.input.status \in {"em_analise", "aprovado", "rejeitado"}
  /\ \A id \in Kept :
       previous[id].status # "pendente" => applications[id].status # "pendente"

\* The panel moved an application that had left pendente to another status.
C21_Witness ==
  /\ Updated
  /\ call.input.id \in Kept
  /\ previous[call.input.id].status # "pendente"
  /\ applications[call.input.id].status # previous[call.input.id].status

\* C27: in the admin panel at most one updateStatus mutation is in flight at
\* a time: while one waits for its answer the three status buttons are
\* disabled, so no second status change starts from the page before the
\* first has succeeded or failed.
C27_OneMutationInFlight ==
  /\ Len(panel.inflight) <= 1
  /\ panel.inflight # <<>> => StatusButtonsDisabled(panel)

\* A status change waits for its answer while the dialog, closed and opened
\* again, shows the other application with its buttons disabled.
C27_Witness ==
  /\ Len(panel.inflight) = 1
  /\ panel.selectedApplication # <<>>
  /\ panel.selectedApplication[1].id # panel.inflight[1].id
  /\ View(panel) = "dashboard"
  /\ StatusButtonsDisabled(panel)

\* C28: in the admin panel, when an updateStatus mutation succeeds the list
\* and stats queries are invalidated and the detail dialog is closed
\* (selectedApplication becomes null); when it fails the selected
\* application stays selected as it was shown and neither query is
\* invalidated. A mutation is answered in the steps that take a request out
\* of those in flight.
C28_MutationOutcome ==
  [][Len(panel'.inflight) < Len(panel.inflight) =>
       IF response'.code = "OK"
         THEN /\ panel'.selectedApplication = <<>>
              /\ panel'.list.status = "invalidated"
              /\ panel'.stats.status = "invalidated"
         ELSE /\ panel'.selectedApplication = panel.selectedApplication
              /\ panel'.list = panel.list
              /\ panel'.stats = panel.stats]_vars

\* A mutation was refused: the application is still selected, as pendente,
\* and the list keeps the data it had.
C28_Witness ==
  /\ call.op = "applications.updateStatus"
  /\ Rejected
  /\ panel.mutation = "error"
  /\ panel.selectedApplication # <<>>
  /\ panel.selectedApplication[1].id = call.input.id
  /\ panel.selectedApplication[1].status = "pendente"
  /\ panel.list.status = "success"

\* A mutation succeeded: the dialog is closed and the list is stale.
C28_WitnessSuccess ==
  /\ Updated
  /\ panel.mutation = "success"
  /\ panel.selectedApplication = <<>>
  /\ panel.list.status = "invalidated"
  /\ panel.stats.status = "invalidated"

\* The column of a users row that a field of InsertUser sets, as the call
\* leaves it: the supplied value, else what the row held.
KeptOrSet(user, row, field) ==
  IF user[field] # Undefined THEN user[field] ELSE row[field]

\* C29: there is at most one user per openId; an upsertUser that ends on an
\* openId no row holds inserts exactly one row, with the role given or else
\* 'user'; one that found the row of its openId changes that row alone,
\* name, email, loginMethod and role only where the call supplies them (an
\* admin stays admin when no role is supplied), and sets lastSignedIn to the
\* time of the call; a call with an empty openId throws and changes nothing.
C29_UpsertUser ==
  /\ \A i, j \in DOMAIN users : users[i].openId = users[j].openId => i = j
  /\ dbCall.fn = "upsertUser" =>
       LET user == dbCall.user
           before == SelectUser(previousUsers, user.openId)
           after == SelectUser(users, user.openId)
       IN  /\ user.openId = "" =>
                dbCall.outcome = "threw" /\ users = previousUsers
           /\ dbCall.outcome = "returned" => users = previousUsers
           /\ user.openId # "" /\ dbCall.outcome # "returned" /\ before = <<>> =>
                /\ dbCall.outcome = "inserted"
                /\ after # <<>>
                /\ DOMAIN users = DOMAIN previousUsers \cup {after[1].id}
                /\ after[1].id \notin DOMAIN previousUsers
                /\ \A i \in DOMAIN previousUsers : users[i] = previousUsers[i]
                /\ after[1].role =
                     (IF user.role \in roleEnum THEN user.role ELSE "user")
                /\ after[1].lastSignedIn = dbCall.at
           /\ dbCall.existing =>
                /\ dbCall.outcome = "updated"
                /\ before # <<>>
                /\ DOMAIN users = DOMAIN previousUsers
                /\ \A i \in DOMAIN users :
                     i # before[1].id => users[i] = previousUsers[i]
                /\ after[1] =
                     [before[1] EXCEPT
                        !.name = KeptOrSet(user, before[1], "name"),
                        !.email = KeptOrSet(user, before[1], "email"),
                        !.loginMethod = KeptOrSet(user, before[1], "loginMethod"),
                        !.role = KeptOrSet(user, before[1], "role"),
                        !.lastSignedIn = dbCall.at]
                /\ user.role = Undefined => after[1].role = before[1].role

\* A later sign-in of the admin that supplies no role has ended: the row is
\* still admin and its lastSignedIn moved on.
C29_Witness ==
  /\ dbCall.fn = "upsertUser"
  /\ dbCall.outcome = "updated"
  /\ dbCall.user.role = Undefined
  /\ dbCall.user.name = Null
  /\ SelectUser(previousUsers, "admin-user") # <<>>
  /\ SelectUser(previousUsers, "admin-user")[1].role = "admin"
  /\ SelectUser(previousUsers, "admin-user")[1].name = "Admin User"
  /\ SelectUser(previousUsers, "admin-user")[1].lastSignedIn < dbCall.at
  /\ SelectUser(users, "admin-user")[1].role = "admin"
  /\ SelectUser(users, "admin-user")[1].name = Null
  /\ Cardinality(DOMAIN users) = 2

\* A first sign-in without a role has ended: the new user has role 'user'.
C29_WitnessInsert ==
  /\ dbCall.fn = "upsertUser"
  /\ dbCall.outcome = "inserted"
  /\ dbCall.user.role = Undefined
  /\ SelectUser(previousUsers, dbCall.user.openId) = <<>>
  /\ SelectUser(users, dbCall.user.openId)[1].role = "user"

\* The last request got as far as the function of db.ts its procedure calls.
ReachedDb ==
  /\ call.op \in {"applications.submit", "applications.list",
                  "applications.getById", "applications.updateStatus",
                  "applications.stats"}
  /\ call.op # "applications.submit" => adminProcedure(call.ctx).code = "OK"
  /\ response.code # "BAD_REQUEST"

\* C30: without DATABASE_URL getDb() never has an instance; while it has none,
\* a request that reaches createApplication, getApplicationById,
\* listApplications, updateApplicationStatus or getApplicationStats is answered
\* with the error 'Database not available' and both tables are as they were,
\* upsertUser returns (or throws for its empty openId) without a write and
\* getUserByOpenId returns undefined; the instance getDb() has created is the
\* only one ever created and stays the cached one.
C30_DatabaseNotAvailable ==
  /\ ~env.DATABASE_URL => _db = <<>>
  /\ _db = <<>> =>
       /\ ReachedDb => response = Refused(DbUnavailable)
       /\ applications = previous
       /\ seq = Cardinality(DOMAIN applications)
       /\ users = previousUsers
       /\ upserts = {}
       /\ dbCall.fn = "upsertUser" =>
            dbCall.outcome = (IF dbCall.user.openId = "" THEN "threw"
                              ELSE "returned")
       /\ dbCall.fn = "getUserByOpenId" =>
            dbCall.outcome = "undefined" /\ dbCall.result = <<>>
  /\ pools <= 1
  /\ _db = (IF pools = 1 THEN <<1>> ELSE <<>>)

\* With DATABASE_URL set the instance could not be created: an admin's
\* updateStatus of a stored application threw 'Database not available', and
\* getUserByOpenId of a stored user returned undefined.
C30_Witness ==
  /\ env.DATABASE_URL
  /\ _db = <<>>
  /\ call.op = "applications.updateStatus"
  /\ call.ctx = createAdminContext
  /\ call.input.id \in DOMAIN applications
  /\ response = Refused(DbUnavailable)
  /\ applications[call.input.id].status = "pendente"
  /\ dbCall.fn = "getUserByOpenId"
  /\ dbCall.outcome = "undefined"
  /\ SelectUser(users, dbCall.user.openId) # <<>>

\* The instance exists and later calls have used it: an upsertUser has
\* updated a user and an admin's request has been served.
C30_WitnessCached ==
  /\ _db = <<1>>
  /\ dbCall.fn = "upsertUser"
  /\ dbCall.outcome = "updated"
  /\ call.op = "applications.stats"
  /\ response.code = "OK"
  /\ response.data.total = MaxApps

====
